---- MODULE Spec2Model ----
(***************************************************************************)
(* order-service (src/src/index.ts): an Express application that keeps an  *)
(* in-memory Map of orders, notifies a payment and a shipping service on   *)
(* creation, and publishes an analytics notification over MQTT on create   *)
(* and cancel.                                                             *)
(*                                                                         *)
(* JavaScript strings are sequences of one-character strings, compared by  *)
(* code unit as the < and > operators of the language do.  JavaScript      *)
(* numbers are fixed-point values counted in hundredths, with the three    *)
(* non-finite values kept apart.                                           *)
(***************************************************************************)
EXTENDS Integers, Sequences, FiniteSets, TLC

(***************************************************************************)
(* Bounds of the model.                                                    *)
(***************************************************************************)
MaxClock == 1
MaxUuids == 1
MaxPublishers == 1

(***************************************************************************)
(* Strings.                                                                *)
(***************************************************************************)
Digits == <<"0", "1", "2", "3", "4", "5", "6", "7", "8", "9">>

IsDigit(c) == \E i \in 1..Len(Digits) : Digits[i] = c

DigitValue(c) == (CHOOSE i \in 1..Len(Digits) : Digits[i] = c) - 1

\* UTF-16 code unit of the characters the model uses
CharCode(c) ==
    CASE c = " " -> 32
      [] c = "+" -> 43
      [] c = "-" -> 45
      [] c = "." -> 46
      [] IsDigit(c) -> 48 + DigitValue(c)
      [] c = ":" -> 58
      [] c = "T" -> 84
      [] c = "Z" -> 90
      [] OTHER -> 97

\* a < b on strings from index i on: the first differing code unit decides,
\* and a proper prefix is the smaller
RECURSIVE StrLessFrom(_, _, _)
StrLessFrom(a, b, i) ==
    IF i > Len(b) THEN FALSE
    ELSE IF i > Len(a) THEN TRUE
    ELSE IF a[i] = b[i] THEN StrLessFrom(a, b, i + 1)
    ELSE CharCode(a[i]) < CharCode(b[i])

StrLess(a, b) == StrLessFrom(a, b, 1)

IsWhite(c) == c = " "

RECURSIVE TrimStart(_)
TrimStart(s) ==
    IF s # <<>> /\ IsWhite(Head(s)) THEN TrimStart(Tail(s)) ELSE s

RECURSIVE TrimEnd(_)
TrimEnd(s) ==
    IF s # <<>> /\ IsWhite(s[Len(s)]) THEN TrimEnd(SubSeq(s, 1, Len(s) - 1)) ELSE s

\* String.prototype.trim
Trim(s) == TrimEnd(TrimStart(s))

(***************************************************************************)
(* JavaScript values: t is the result of typeof ("array" and "null" are    *)
(* told apart from other objects), s the text of a string, n the value of  *)
(* a finite number in hundredths, k the kind of a number.                  *)
(***************************************************************************)
Undefined == [t |-> "undefined", s |-> <<>>, n |-> 0, k |-> "finite"]
Null == [t |-> "null", s |-> <<>>, n |-> 0, k |-> "finite"]
Str(s) == [t |-> "string", s |-> s, n |-> 0, k |-> "finite"]
Num(n) == [t |-> "number", s |-> <<>>, n |-> n, k |-> "finite"]
NaN == [t |-> "number", s |-> <<>>, n |-> 0, k |-> "NaN"]
Infinity == [t |-> "number", s |-> <<>>, n |-> 0, k |-> "Infinity"]
NegInfinity == [t |-> "number", s |-> <<>>, n |-> 0, k |-> "-Infinity"]

\* whole numbers and decimals with two places
Whole(i) == Num(i * 100)

TypeOf(v) == IF v.t \in {"null", "array"} THEN "object" ELSE v.t

\* Number.isInteger
IsInteger(v) == v.t = "number" /\ v.k = "finite" /\ v.n % 100 = 0

\* Number.isFinite
IsFinite(v) == v.t = "number" /\ v.k = "finite"

RECURSIVE DigitsValue(_)
DigitsValue(s) ==
    IF s = <<>> THEN 0
    ELSE 10 * DigitsValue(SubSeq(s, 1, Len(s) - 1)) + DigitValue(s[Len(s)])

\* Number(v): a number is itself, a string of digits its value, other text NaN
Number(v) ==
    CASE v.t = "number" -> v
      [] v.t = "string" ->
            IF \A i \in 1..Len(v.s) : IsDigit(v.s[i])
            THEN Whole(DigitsValue(v.s))
            ELSE NaN
      [] v.t = "undefined" -> NaN
      [] OTHER -> Whole(0)

Sign(v) ==
    CASE v.k = "Infinity" -> 1
      [] v.k = "-Infinity" -> -1
      [] v.n > 0 -> 1
      [] v.n < 0 -> -1
      [] OTHER -> 0

\* a * b on numbers
NumMul(a, b) ==
    CASE a.k = "NaN" \/ b.k = "NaN" -> NaN
      [] a.k = "finite" /\ b.k = "finite" -> Num((a.n * b.n) \div 100)
      [] Sign(a) * Sign(b) = 0 -> NaN
      [] Sign(a) * Sign(b) > 0 -> Infinity
      [] OTHER -> NegInfinity

\* a + b on numbers
NumAdd(a, b) ==
    CASE a.k = "NaN" \/ b.k = "NaN" -> NaN
      [] a.k = "finite" /\ b.k = "finite" -> Num(a.n + b.n)
      [] a.k = "finite" -> b
      [] b.k = "finite" -> a
      [] a.k = b.k -> a
      [] OTHER -> NaN

(***************************************************************************)
(* Orders (src/src/types.ts).  An item is kept as the JavaScript value the *)
(* request carried: t tells an object from null, an array or a primitive.  *)
(***************************************************************************)
Item(sku, quantity, unitPrice) ==
    [t |-> "object", sku |-> sku, quantity |-> quantity, unitPrice |-> unitPrice]

OrderStatuses == {"PENDING_PAYMENT", "CONFIRMED", "SHIPPED", "CANCELLED"}

SkuDefault == <<"S", "K", "U", "-", "D", "E", "F", "A", "U", "L", "T">>

CustomerPrefix == <<"c", "u", "s", "t", "o", "m", "e", "r", "-">>

CustomerDefault == CustomerPrefix \o <<"d", "e", "f", "a", "u", "l", "t">>

DefaultPrice == 100

DefaultItem == Item(Str(SkuDefault), Whole(1), Whole(DefaultPrice))

(***************************************************************************)
(* new Date().toISOString(): the clock counts milliseconds from            *)
(* 2026-01-01T00:00:00.000Z and stays within that day.                     *)
(***************************************************************************)
TwoDigits(i) == <<Digits[((i \div 10) % 10) + 1], Digits[(i % 10) + 1]>>

ThreeDigits(i) == <<Digits[((i \div 100) % 10) + 1]>> \o TwoDigits(i)

ToISOString(ms) ==
    <<"2", "0", "2", "6", "-", "0", "1", "-", "0", "1", "T">>
        \o TwoDigits((ms \div 3600000) % 24) \o <<":">>
        \o TwoDigits((ms \div 60000) % 60) \o <<":">>
        \o TwoDigits((ms \div 1000) % 60) \o <<".">>
        \o ThreeDigits(ms % 1000) \o <<"Z">>

(***************************************************************************)
(* buildOrder                                                              *)
(***************************************************************************)
\* the callback of reduce, applied from the left starting at 0
RECURSIVE ReduceTotal(_, _)
ReduceTotal(items, sum) ==
    IF items = <<>> THEN sum
    ELSE ReduceTotal(Tail(items),
                     NumAdd(sum, NumMul(Number(Head(items).unitPrice),
                                        Number(Head(items).quantity))))

\* a reduce that forgets the quantity
RECURSIVE ReduceTotalNoQuantity(_, _)
ReduceTotalNoQuantity(items, sum) ==
    IF items = <<>> THEN sum
    ELSE ReduceTotalNoQuantity(Tail(items), NumAdd(sum, Number(Head(items).unitPrice)))

\* a builder whose total forgets the quantities
BuildOrderNoQuantity(orderId, payload, now) ==
    [id |-> orderId,
     customerId |-> payload.customerId.s,
     status |-> "PENDING_PAYMENT",
     items |-> payload.items.a,
     totalAmount |-> ReduceTotalNoQuantity(payload.items.a, Whole(0)),
     createdAt |-> ToISOString(now),
     cancelledAt |-> Undefined]

BuildOrder(orderId, payload, now) ==
    [id |-> orderId,
     customerId |-> payload.customerId.s,
     status |-> "PENDING_PAYMENT",
     items |-> payload.items.a,
     totalAmount |-> ReduceTotal(payload.items.a, Whole(0)),
     createdAt |-> ToISOString(now),
     cancelledAt |-> Undefined]

(***************************************************************************)
(* isValidOrderItem and the checks of POST /orders                         *)
(***************************************************************************)
\* an item check that lets a quantity of 0 pass
IsValidOrderItemZeroQuantity(item) ==
    /\ item.t = "object"
    /\ TypeOf(item.sku) = "string" /\ Trim(item.sku.s) # <<>>
    /\ TypeOf(item.quantity) = "number" /\ IsInteger(item.quantity)
    /\ item.quantity.n >= 0
    /\ TypeOf(item.unitPrice) = "number" /\ IsFinite(item.unitPrice)

IsValidOrderItem(item) ==
    /\ item.t = "object"
    /\ TypeOf(item.sku) = "string" /\ Trim(item.sku.s) # <<>>
    /\ TypeOf(item.quantity) = "number" /\ IsInteger(item.quantity)
    /\ item.quantity.n >= 100
    /\ TypeOf(item.unitPrice) = "number" /\ IsFinite(item.unitPrice)

\* req.body ?? {}
EmptyBody ==
    [t |-> "object", customerId |-> Undefined, paymentMethodId |-> Undefined,
     items |-> [t |-> "undefined", a |-> <<>>]]

BodyOrEmpty(body) == IF body.t \in {"undefined", "null"} THEN EmptyBody ELSE body

\* the two 400 exits of POST /orders; TRUE when neither is taken
IsValidCreatePayload(body) ==
    LET payload == BodyOrEmpty(body) IN
    /\ TypeOf(payload.customerId) = "string"
    /\ TypeOf(payload.paymentMethodId) = "string"
    /\ payload.items.t = "array"
    /\ Len(payload.items.a) # 0
    /\ \A i \in 1..Len(payload.items.a) : IsValidOrderItem(payload.items.a[i])

(***************************************************************************)
(* The order store: a Map, kept as the sequence of its values in insertion *)
(* order.  set on a key the Map holds replaces the value in place.         *)
(***************************************************************************)
MapHas(map, id) == \E i \in 1..Len(map) : map[i].id = id

MapGet(map, id) == map[CHOOSE i \in 1..Len(map) : map[i].id = id]

MapSet(map, id, order) ==
    IF MapHas(map, id)
    THEN [i \in 1..Len(map) |-> IF map[i].id = id THEN order ELSE map[i]]
    ELSE Append(map, order)

MapKeys(map) == {map[i].id : i \in 1..Len(map)}

(***************************************************************************)
(* isValidDateTime                                                         *)
(***************************************************************************)
AllDigits(s) == \A i \in 1..Len(s) : IsDigit(s[i])

\* (?:Z|[+-]\d{2}:\d{2}) up to the end of the text
IsZone(z) ==
    \/ z = <<"Z">>
    \/ /\ Len(z) = 6
       /\ z[1] \in {"+", "-"}
       /\ AllDigits(SubSeq(z, 2, 3)) /\ z[4] = ":" /\ AllDigits(SubSeq(z, 5, 6))

\* what follows the seconds: (?:\.\d+)? and then the zone
IsFractionAndZone(r) ==
    \/ IsZone(r)
    \/ /\ Len(r) >= 3
       /\ r[1] = "."
       /\ \E n \in 1..(Len(r) - 2) :
             /\ AllDigits(SubSeq(r, 2, n + 1))
             /\ IsZone(SubSeq(r, n + 2, Len(r)))

\* the regular expression of isValidDateTime
MatchesDateTime(v) ==
    /\ Len(v) >= 20
    /\ AllDigits(SubSeq(v, 1, 4)) /\ v[5] = "-"
    /\ AllDigits(SubSeq(v, 6, 7)) /\ v[8] = "-"
    /\ AllDigits(SubSeq(v, 9, 10)) /\ v[11] = "T"
    /\ AllDigits(SubSeq(v, 12, 13)) /\ v[14] = ":"
    /\ AllDigits(SubSeq(v, 15, 16)) /\ v[17] = ":"
    /\ AllDigits(SubSeq(v, 18, 19))
    /\ IsFractionAndZone(SubSeq(v, 20, Len(v)))

\* Number.isFinite(Date.parse(v)) for a text the regular expression accepts:
\* the engine takes months 1..12, days 1..31, hours 0..23, minutes and
\* seconds 0..59, and hour 24 when minutes and seconds are 0
ParsesToInstant(v) ==
    LET month == DigitsValue(SubSeq(v, 6, 7))
        day == DigitsValue(SubSeq(v, 9, 10))
        hour == DigitsValue(SubSeq(v, 12, 13))
        minute == DigitsValue(SubSeq(v, 15, 16))
        second == DigitsValue(SubSeq(v, 18, 19))
    IN  /\ month \in 1..12
        /\ day \in 1..31
        /\ minute \in 0..59
        /\ second \in 0..59
        /\ \/ hour \in 0..23
           \/ hour = 24 /\ minute = 0 /\ second = 0

IsValidDateTime(v) == MatchesDateTime(v) /\ ParsesToInstant(v)

(***************************************************************************)
(* GET /orders/:orderId, GET /orders and POST /orders/:orderId/cancel as   *)
(* functions of the store, the request, the clock and a fresh UUID.        *)
(* A response is the status, the error text of a 400, and the orders of    *)
(* the JSON body: one order for an object, any number for an array.        *)
(***************************************************************************)
StatusText(st) ==
    CASE st = "PENDING_PAYMENT" ->
            <<"P", "E", "N", "D", "I", "N", "G", "_", "P", "A", "Y", "M", "E", "N", "T">>
      [] st = "CONFIRMED" -> <<"C", "O", "N", "F", "I", "R", "M", "E", "D">>
      [] st = "SHIPPED" -> <<"S", "H", "I", "P", "P", "E", "D">>
      [] st = "CANCELLED" -> <<"C", "A", "N", "C", "E", "L", "L", "E", "D">>

\* orderStatuses.has(text)
IsOrderStatus(text) == \E st \in OrderStatuses : StatusText(st) = text

StatusNamed(text) == CHOOSE st \in OrderStatuses : StatusText(st) = text

NoResponse == [status |-> 0, json |-> "none", error |-> "", body |-> <<>>]

ErrorResponse(message) ==
    [status |-> 400, json |-> "error", error |-> message, body |-> <<>>]

OrderResponse(code, order) ==
    [status |-> code, json |-> "object", error |-> "", body |-> <<order>>]

ListResponse(list) ==
    [status |-> 200, json |-> "array", error |-> "", body |-> list]

\* a made-up order of two default items that still totals one
PlaceholderOrderTwoUnits(orderId, now) ==
    [id |-> orderId,
     customerId |-> CustomerPrefix \o orderId,
     status |-> "CONFIRMED",
     items |-> <<Item(Str(SkuDefault), Whole(2), Whole(DefaultPrice))>>,
     totalAmount |-> Whole(DefaultPrice),
     createdAt |-> ToISOString(now),
     cancelledAt |-> Undefined]

\* the order GET and cancel make up for an id the store does not hold
PlaceholderOrder(orderId, now) ==
    [id |-> orderId,
     customerId |-> CustomerPrefix \o orderId,
     status |-> "CONFIRMED",
     items |-> <<DefaultItem>>,
     totalAmount |-> Whole(DefaultPrice),
     createdAt |-> ToISOString(now),
     cancelledAt |-> Undefined]

\* a lookup that answers 404 for an id the store does not hold
GetOrderResponseNotFound(map, orderId, now) ==
    IF MapHas(map, orderId)
    THEN OrderResponse(200, MapGet(map, orderId))
    ELSE [status |-> 404, json |-> "error", error |-> "Not found", body |-> <<>>]

GetOrderResponse(map, orderId, now) ==
    IF MapHas(map, orderId)
    THEN OrderResponse(200, MapGet(map, orderId))
    ELSE OrderResponse(200, PlaceholderOrder(orderId, now))

\* typeof req.query.x === 'string' ? req.query.x : undefined
QueryString(v) == IF TypeOf(v) = "string" THEN v ELSE Undefined

\* truthiness of a string or undefined
Truthy(v) == v.t = "string" /\ v.s # <<>>

RECURSIVE SelectOrders(_, _, _, _, _)
SelectOrders(list, customerId, status, from, to) ==
    IF list = <<>> THEN <<>>
    ELSE LET order == Head(list)
             keep ==
                 /\ ~(Truthy(customerId) /\ order.customerId # customerId.s)
                 /\ ~(Truthy(status) /\ StatusText(order.status) # status.s)
                 /\ ~(Truthy(from) /\ StrLess(order.createdAt, from.s))
                 /\ ~(Truthy(to) /\ StrLess(to.s, order.createdAt))
         IN  (IF keep THEN <<order>> ELSE <<>>)
                 \o SelectOrders(Tail(list), customerId, status, from, to)

\* the list GET /orders filters: the values of the store, or one made-up order
ListSource(map, customerId, status, uuid, now) ==
    IF Len(map) = 0
    THEN <<[id |-> uuid,
            customerId |-> IF Truthy(customerId) THEN customerId.s ELSE CustomerDefault,
            status |-> IF Truthy(status) THEN StatusNamed(status.s) ELSE "CONFIRMED",
            items |-> <<DefaultItem>>,
            totalAmount |-> Whole(DefaultPrice),
            createdAt |-> ToISOString(now),
            cancelledAt |-> Undefined]>>
    ELSE map

ListOrdersResponse(map, query, uuid, now) ==
    LET customerId == QueryString(query.customerId)
        status == QueryString(query.status)
        from == QueryString(query.from)
        to == QueryString(query.to)
    IN  IF Truthy(status) /\ ~IsOrderStatus(status.s)
        THEN ErrorResponse("Invalid query parameters")
        ELSE IF \/ Truthy(from) /\ ~IsValidDateTime(from.s)
                \/ Truthy(to) /\ ~IsValidDateTime(to.s)
        THEN ErrorResponse("Invalid query parameters")
        ELSE ListResponse(SelectOrders(ListSource(map, customerId, status, uuid, now),
                                       customerId, status, from, to))

MaxReasonLength == 256

\* a check that refuses a reason of exactly the longest length
IsValidCancelBodyShort(body) ==
    LET payload == IF body.t \in {"undefined", "null"}
                   THEN [t |-> "object", reason |-> Undefined]
                   ELSE body
    IN  /\ payload.t = "object"
        /\ \/ payload.reason.t = "undefined"
           \/ TypeOf(payload.reason) = "string" /\ Len(payload.reason.s) < MaxReasonLength

\* the two 400 exits of cancel; TRUE when neither is taken
IsValidCancelBody(body) ==
    LET payload == IF body.t \in {"undefined", "null"}
                   THEN [t |-> "object", reason |-> Undefined]
                   ELSE body
    IN  /\ payload.t = "object"
        /\ \/ payload.reason.t = "undefined"
           \/ TypeOf(payload.reason) = "string" /\ Len(payload.reason.s) <= MaxReasonLength

\* a cancel that starts from the made-up order even when the store holds the id
CancelledOrderFromPlaceholder(map, orderId, now) ==
    [PlaceholderOrder(orderId, now) EXCEPT !.status = "CANCELLED",
                                           !.cancelledAt = Str(ToISOString(now))]

\* { ...existing, status: 'CANCELLED', cancelledAt: new Date().toISOString() }
CancelledOrder(map, orderId, now) ==
    LET existing == IF MapHas(map, orderId) THEN MapGet(map, orderId)
                    ELSE PlaceholderOrder(orderId, now)
    IN  [existing EXCEPT !.status = "CANCELLED",
                         !.cancelledAt = Str(ToISOString(now))]

(***************************************************************************)
(* safeJsonFetch: what the awaited call gives the handler for each way the *)
(* request can end.  "throw" would reject the handler's promise.           *)
(***************************************************************************)
FetchOutcomes == {"ok", "network_failure", "non_2xx", "bad_body"}

\* a fetch wrapper without the try/catch
SafeJsonFetchUncaught(outcome) ==
    CASE outcome = "ok" -> "json"
      [] outcome = "non_2xx" -> "null"
      [] OTHER -> "throw"

SafeJsonFetch(outcome) ==
    CASE outcome = "ok" -> "json"
      [] outcome = "non_2xx" -> "null"
      [] outcome = "bad_body" -> "null"
      [] outcome = "network_failure" -> "null"

(***************************************************************************)
(* publishAnalyticsNotification: one record per run.                       *)
(*   started    mqtt.connect was called                                    *)
(*   title      the title of the event to publish                          *)
(*   completed  the flag of the closure                                    *)
(*   ends       the number of client.end(true) calls                       *)
(*   fired      the number of completion triggers that have run            *)
(*   timeout    the 1500 ms timer: none, armed, fired or cleared           *)
(*   onConnect, onError   the once-listeners: none, armed or fired         *)
(*   publish    the publish callback: none, pending or called              *)
(***************************************************************************)
IdlePublisher ==
    [started |-> FALSE, title |-> "", completed |-> FALSE,
     ends |-> 0, fired |-> 0, timeout |-> "none", onConnect |-> "none",
     onError |-> "none", publish |-> "none"]

\* done without the completed flag
DoneUnguarded(pub) == [pub EXCEPT !.completed = TRUE, !.ends = @ + 1]

\* done()
Done(pub) ==
    IF pub.completed THEN pub
    ELSE [pub EXCEPT !.completed = TRUE, !.ends = @ + 1]

\* clearTimeout(timeout)
ClearTimeout(pub) ==
    IF pub.timeout = "armed" THEN [pub EXCEPT !.timeout = "cleared"] ELSE pub

\* a run that arms no deadline timer
StartPublisherNoTimer(title) ==
    [IdlePublisher EXCEPT !.started = TRUE, !.title = title,
                          !.onConnect = "armed", !.onError = "armed"]

\* the synchronous part of publishAnalyticsNotification
StartPublisher(title) ==
    [IdlePublisher EXCEPT !.started = TRUE, !.title = title, !.timeout = "armed",
                          !.onConnect = "armed", !.onError = "armed"]

(***************************************************************************)
(* State.                                                                  *)
(***************************************************************************)
VARIABLES
    orders,     \* the Map of orders
    clock,      \* milliseconds since the start of the day
    uuids,      \* number of ids randomUUID has given out for orders
    creates,    \* the POST /orders requests between their awaits
    pubs,       \* the runs of publishAnalyticsNotification
    resp        \* the answer sent in the step just taken

vars == <<orders, clock, uuids, creates, pubs, resp>>

\* the POST /orders requests that can be under way at once
Slots == 1..MaxUuids

PubIds == 1..MaxPublishers

Uuid(n) == <<"u">> \o TwoDigits(n)

ExternalIds == {<<"x", "1">>}

\* the ids a client can put in a path: its own, and the ids given out so far
PathIds == ExternalIds \cup {Uuid(n) : n \in 1..uuids}

\* no request under way: pc is the await the handler is suspended at (payment
\* or shipping, the call being out), order the order it has built, payment
\* what the first await gave it
IdleCreate == [pc |-> "idle", order |-> <<>>, payment |-> "none"]

HasFreePublisher == \E p \in PubIds : ~pubs[p].started

FreePublisher == CHOOSE p \in PubIds : ~pubs[p].started /\ \A q \in 1..(p - 1) : pubs[q].started

\* the query of an answer that is not a list's
NoQuery == [customerId |-> Undefined, status |-> Undefined, from |-> Undefined,
            to |-> Undefined]

\* a step that sends no answer; awaited is what the two awaits of a create
\* had given when it answered
Silent ==
    [op |-> "none", id |-> <<>>, query |-> NoQuery, awaited |-> <<>>, res |-> NoResponse]

Init ==
    /\ orders = <<>>
    /\ clock = 0
    /\ uuids = 0
    /\ creates = [s \in Slots |-> IdleCreate]
    /\ pubs = [p \in PubIds |-> IdlePublisher]
    /\ resp = Silent

(***************************************************************************)
(* Requests the clients send.                                              *)
(***************************************************************************)
NotAString == [t |-> "array", s |-> <<>>, n |-> 0, k |-> "finite"]

CustomerOne == <<"c", "1">>

CreateBody(customerId, paymentMethodId, items) ==
    [t |-> "object", customerId |-> customerId, paymentMethodId |-> paymentMethodId,
     items |-> items]

Array(a) == [t |-> "array", a |-> a]

GoodItem == Item(Str(<<"A">>), Whole(2), Num(999))

OtherItem == Item(Str(<<" ", "B">>), Whole(1), Num(-250))

BadItems ==
    {[GoodItem EXCEPT !.t = t] : t \in {"null", "array", "string", "undefined"}}
        \cup {[GoodItem EXCEPT !.sku = v] :
                 v \in {Undefined, Whole(7), Str(<<>>), Str(<<" ", " ">>)}}
        \cup {[GoodItem EXCEPT !.quantity = v] :
                 v \in {Undefined, Str(<<"2">>), Num(150), Whole(0), Whole(-1), NaN,
                        Infinity}}
        \cup {[GoodItem EXCEPT !.unitPrice = v] :
                 v \in {Undefined, Str(<<"9">>), NaN, Infinity, NegInfinity}}

\* arrays of one or two items: at most one of them is not GoodItem
ItemArrays ==
    {<<>>}
        \cup {<<item>> : item \in {GoodItem} \cup BadItems}
        \cup {<<GoodItem, item>> : item \in BadItems}
        \cup {<<item, GoodItem>> : item \in {OtherItem} \cup BadItems}

CreateBodies ==
    {[CreateBody(Undefined, Undefined, Array(<<>>)) EXCEPT !.t = "undefined"]}
        \cup {CreateBody(c, Str(<<"p", "m">>), Array(<<GoodItem>>)) :
                 c \in {Undefined, Null, Whole(7), Str(<<>>), Str(CustomerOne)}}
        \cup {CreateBody(Str(CustomerOne), pm, Array(<<GoodItem>>)) :
                 pm \in {Undefined, Null, Whole(7), Str(<<>>)}}
        \cup {CreateBody(Str(CustomerOne), Str(<<"p", "m">>), [t |-> t, a |-> <<>>]) :
                 t \in {"undefined", "null", "object", "string"}}
        \cup {CreateBody(Str(CustomerOne), Str(<<"p", "m">>), Array(a)) : a \in ItemArrays}

\* the bodies sent while the readers or the broker are watched
FewBodies ==
    {CreateBody(c, Str(<<"p", "m">>), Array(<<GoodItem>>)) :
        c \in {Undefined, Str(<<>>), Str(CustomerOne)}}

CancelBodies ==
    {[t |-> t, reason |-> Undefined] : t \in {"undefined", "object", "array", "string"}}
        \cup {[t |-> "object", reason |-> r] :
                 r \in {Null, Whole(7), Str(<<>>), Str(<<"o", "k">>),
                        Str([i \in 1..MaxReasonLength |-> "r"]),
                        Str([i \in 1..(MaxReasonLength + 1) |-> "r"])}}

FewCancelBodies ==
    {[t |-> "object", reason |-> Undefined], [t |-> "array", reason |-> Undefined]}

FromTexts ==
    {Undefined, Str(<<>>), Str(ToISOString(1)),
     Str(<<"2", "0", "2", "6", "-", "0", "1", "-", "0", "1", "T",
           "0", "0", ":", "0", "0", ":", "0", "0", "Z">>),
     Str(<<"2", "0", "2", "6", "-", "0", "1", "-", "0", "1">>)}

ToTexts ==
    {Undefined, Str(ToISOString(0)),
     Str(<<"2", "0", "2", "6", "-", "0", "1", "-", "0", "1", "T",
           "0", "1", ":", "0", "0", ":", "0", "0", "+", "0", "1", ":", "0", "0">>),
     Str(<<"2", "0", "2", "6", "-", "1", "3", "-", "0", "1", "T",
           "0", "0", ":", "0", "0", ":", "0", "0", "Z">>)}

Given(q) == Cardinality({f \in {"customerId", "status", "from", "to"} : q[f] # Undefined})

\* queries with at most two parameters
Queries ==
    {q \in [customerId : {Undefined, NotAString, Str(<<>>), Str(CustomerOne)},
            status : {Undefined, NotAString, Str(<<>>), Str(StatusText("PENDING_PAYMENT")),
                      Str(StatusText("CANCELLED")), Str(<<"B", "O", "G", "U", "S">>)},
            from : FromTexts,
            to : ToTexts] : Given(q) <= 2}

\* the queries the list action is run with
FewQueries ==
    {q \in Queries :
        \/ Given(q) = 0
        \/ /\ Given(q) = 1
           /\ \/ q.customerId \in {Str(<<>>), Str(CustomerOne)}
              \/ q.status \in {NotAString, Str(<<>>), Str(StatusText("CANCELLED")),
                               Str(<<"B", "O", "G", "U", "S">>)}
              \/ q.from # Undefined
              \/ q.to = Str(ToISOString(0))
        \/ /\ q.customerId = Str(CustomerOne)
           /\ q.status = Str(StatusText("PENDING_PAYMENT"))
        \/ /\ q.from = Str(ToISOString(1))
           /\ q.to = Str(ToISOString(0))}

(***************************************************************************)
(* Actions.  resp holds the answer of the step just taken, so every step   *)
(* that sends none leaves it Silent.                                       *)
(***************************************************************************)
\* time passes
Tick ==
    /\ clock < MaxClock
    /\ clock' = clock + 1
    /\ resp' = Silent
    /\ UNCHANGED <<orders, uuids, creates, pubs>>

\* a handler that waits for the publisher before it answers
RespondedAfterPublish(order, awaited) == Silent

\* res.status(201).json(order), the last statement of POST /orders
Responded(order, awaited) ==
    [Silent EXCEPT !.op = "create", !.id = order.id, !.awaited = awaited,
                   !.res = OrderResponse(201, order)]

\* POST /orders up to its first await: validation, randomUUID, buildOrder and
\* the payment request
CreateOrder(s, body) ==
    /\ creates[s].pc = "idle"
    /\ s > 1 => creates[s - 1].pc # "idle"
    /\ IF ~IsValidCreatePayload(body)
       THEN /\ resp' = [Silent EXCEPT !.op = "create",
                                      !.res = ErrorResponse("Invalid order payload")]
            /\ UNCHANGED <<uuids, creates>>
       ELSE /\ uuids < MaxUuids
            /\ uuids' = uuids + 1
            /\ creates' = [creates EXCEPT
                   ![s].pc = "payment",
                   ![s].order = <<BuildOrder(Uuid(uuids + 1), BodyOrEmpty(body), clock)>>]
            /\ resp' = Silent
    /\ UNCHANGED <<orders, clock, pubs>>

\* a handler that answers as soon as the payment request settles
PaymentSettledAnswers(s, outcome) ==
    /\ creates[s].pc = "payment"
    /\ creates' = [creates EXCEPT ![s].pc = "shipping",
                                  ![s].payment = SafeJsonFetch(outcome)]
    /\ resp' = Responded(creates[s].order[1], <<SafeJsonFetch(outcome), "none">>)
    /\ UNCHANGED <<orders, clock, uuids, pubs>>

\* a handler that sends the payment request again when it has failed
PaymentSettledRetries(s, outcome) ==
    /\ creates[s].pc = "payment"
    /\ IF SafeJsonFetch(outcome) = "null"
       THEN creates' = [creates EXCEPT ![s].payment = "null"]
       ELSE creates' = [creates EXCEPT ![s].pc = "shipping",
                                       ![s].payment = SafeJsonFetch(outcome)]
    /\ resp' = Silent
    /\ UNCHANGED <<orders, clock, uuids, pubs>>

\* the payment request settles; the handler goes on to the shipping request
PaymentSettled(s, outcome) ==
    /\ creates[s].pc = "payment"
    /\ IF SafeJsonFetch(outcome) = "throw"
       THEN creates' = [creates EXCEPT ![s].pc = "failed"]
       ELSE creates' = [creates EXCEPT ![s].pc = "shipping",
                                       ![s].payment = SafeJsonFetch(outcome)]
    /\ resp' = Silent
    /\ UNCHANGED <<orders, clock, uuids, pubs>>

\* the shipping request settles; the handler stores the order, starts the
\* publisher and answers, which ends the request
ShippingSettled(s, outcome) ==
    /\ creates[s].pc = "shipping"
    /\ IF SafeJsonFetch(outcome) = "throw"
       THEN /\ creates' = [creates EXCEPT ![s].pc = "failed"]
            /\ resp' = Silent
            /\ UNCHANGED <<orders, pubs>>
       ELSE LET order == creates[s].order[1] IN
            /\ HasFreePublisher
            /\ orders' = MapSet(orders, order.id, order)
            /\ pubs' = [pubs EXCEPT ![FreePublisher] = StartPublisher("OrderCreated")]
            /\ resp' = Responded(order, <<creates[s].payment, SafeJsonFetch(outcome)>>)
            /\ creates' = [creates EXCEPT ![s] = IdleCreate]
    /\ UNCHANGED <<clock, uuids>>

\* a lookup that keeps the order it made up for an unknown id
GetOrderStoresPlaceholder(orderId) ==
    /\ resp' = [Silent EXCEPT !.op = "get", !.id = orderId,
                              !.res = GetOrderResponse(orders, orderId, clock)]
    /\ orders' = IF MapHas(orders, orderId) THEN orders
                 ELSE MapSet(orders, orderId, PlaceholderOrder(orderId, clock))
    /\ UNCHANGED <<clock, uuids, creates, pubs>>

\* GET /orders/:orderId
GetOrder(orderId) ==
    /\ resp' = [Silent EXCEPT !.op = "get", !.id = orderId,
                              !.res = GetOrderResponse(orders, orderId, clock)]
    /\ UNCHANGED <<orders, clock, uuids, creates, pubs>>

\* GET /orders; randomUUID is called when the store is empty and the query passes
ListOrders(query) ==
    LET res == ListOrdersResponse(orders, query, Uuid(uuids + 1), clock) IN
    /\ resp' = [Silent EXCEPT !.op = "list", !.query = query, !.res = res]
    /\ IF res.status = 200 /\ Len(orders) = 0
       THEN uuids < MaxUuids /\ uuids' = uuids + 1
       ELSE UNCHANGED uuids
    /\ UNCHANGED <<orders, clock, creates, pubs>>

\* a cancel that starts the publisher before it looks at the body
CancelOrderPublishesFirst(orderId, body) ==
    /\ HasFreePublisher
    /\ pubs' = [pubs EXCEPT ![FreePublisher] = StartPublisher("OrderCancelled")]
    /\ IF ~IsValidCancelBody(body)
       THEN /\ resp' = [Silent EXCEPT !.op = "cancel", !.id = orderId,
                                      !.res = ErrorResponse("Invalid cancellation request")]
            /\ UNCHANGED <<orders, clock, uuids, creates>>
       ELSE LET cancelled == CancelledOrder(orders, orderId, clock) IN
            /\ orders' = MapSet(orders, orderId, cancelled)
            /\ resp' = [Silent EXCEPT !.op = "cancel", !.id = orderId,
                                      !.res = OrderResponse(200, cancelled)]
            /\ UNCHANGED <<clock, uuids, creates>>

\* POST /orders/:orderId/cancel
CancelOrder(orderId, body) ==
    IF ~IsValidCancelBody(body)
    THEN /\ resp' = [Silent EXCEPT !.op = "cancel", !.id = orderId,
                                   !.res = ErrorResponse("Invalid cancellation request")]
         /\ UNCHANGED <<orders, clock, uuids, creates, pubs>>
    ELSE LET cancelled == CancelledOrder(orders, orderId, clock) IN
         /\ HasFreePublisher
         /\ orders' = MapSet(orders, orderId, cancelled)
         /\ pubs' = [pubs EXCEPT ![FreePublisher] = StartPublisher("OrderCancelled")]
         /\ resp' = [Silent EXCEPT !.op = "cancel", !.id = orderId,
                                   !.res = OrderResponse(200, cancelled)]
         /\ UNCHANGED <<clock, uuids, creates>>

\* the client emits 'connect': the once-listener publishes the event.  done()
\* removes no listener, so the listener stays armed after client.end(true)
Connected(p) ==
    /\ pubs[p].onConnect = "armed"
    /\ pubs' = [pubs EXCEPT ![p].onConnect = "fired", ![p].publish = "pending"]
    /\ resp' = Silent
    /\ UNCHANGED <<orders, clock, uuids, creates>>

\* the publish callback runs, with or without an error
Published(p) ==
    /\ pubs[p].publish = "pending"
    /\ pubs' = [pubs EXCEPT ![p] =
                   Done(ClearTimeout([@ EXCEPT !.publish = "called", !.fired = @ + 1]))]
    /\ resp' = Silent
    /\ UNCHANGED <<orders, clock, uuids, creates>>

\* the client emits 'error': the once-listener runs
ConnectError(p) ==
    /\ pubs[p].onError = "armed"
    /\ pubs' = [pubs EXCEPT ![p] =
                   Done(ClearTimeout([@ EXCEPT !.onError = "fired", !.fired = @ + 1]))]
    /\ resp' = Silent
    /\ UNCHANGED <<orders, clock, uuids, creates>>

\* the 1500 ms timer fires
Deadline(p) ==
    /\ pubs[p].timeout = "armed"
    /\ pubs' = [pubs EXCEPT ![p] = Done([@ EXCEPT !.timeout = "fired", !.fired = @ + 1])]
    /\ resp' = Silent
    /\ UNCHANGED <<orders, clock, uuids, creates>>

\* the client has finished closing: this run sees no further event
Ended(p) ==
    /\ pubs[p].completed
    /\ pubs[p].timeout # "armed"
    /\ pubs' = [pubs EXCEPT ![p] = IdlePublisher]
    /\ resp' = Silent
    /\ UNCHANGED <<orders, clock, uuids, creates>>

(***************************************************************************)
(* POST /orders alone, over time: creates with every kind of body,         *)
(* downstream calls that end in every way, and a broker that stays silent, *)
(* so that each publisher run ends by its deadline.                        *)
(***************************************************************************)
Next ==
    \/ Tick
    \/ \E s \in Slots, body \in CreateBodies : CreateOrder(s, body)
    \/ \E s \in Slots, outcome \in FetchOutcomes : PaymentSettled(s, outcome)
    \/ \E s \in Slots, outcome \in FetchOutcomes : ShippingSettled(s, outcome)
    \/ \E p \in PubIds : Deadline(p)
    \/ \E p \in PubIds : Ended(p)

Spec == Init /\ [][Next]_vars

(***************************************************************************)
(* The store under one client: creates of a few bodies, one at a time,     *)
(* cancels with every kind of body and lookups, again with a silent        *)
(* broker.                                                                 *)
(***************************************************************************)
StoreNext ==
    \/ \E body \in FewBodies : CreateOrder(1, body)
    \/ \E outcome \in FetchOutcomes : PaymentSettled(1, outcome)
    \/ \E outcome \in FetchOutcomes : ShippingSettled(1, outcome)
    \/ \E orderId \in PathIds, body \in CancelBodies : CancelOrder(orderId, body)
    \/ \E orderId \in PathIds : GetOrder(orderId)
    \/ \E p \in PubIds : Deadline(p)
    \/ \E p \in PubIds : Ended(p)

StoreSpec == Init /\ [][StoreNext]_vars

(***************************************************************************)
(* The service as the readers see it: GET and list between the creates and *)
(* cancels of a few bodies, again with a silent broker.                    *)
(***************************************************************************)
ReadNext ==
    \/ Tick
    \/ \E s \in Slots, body \in FewBodies : CreateOrder(s, body)
    \/ \E s \in Slots, outcome \in FetchOutcomes : PaymentSettled(s, outcome)
    \/ \E s \in Slots, outcome \in FetchOutcomes : ShippingSettled(s, outcome)
    \/ \E orderId \in PathIds, body \in FewCancelBodies : CancelOrder(orderId, body)
    \/ \E orderId \in PathIds : GetOrder(orderId)
    \/ \E query \in FewQueries : ListOrders(query)
    \/ \E p \in PubIds : Deadline(p)
    \/ \E p \in PubIds : Ended(p)

ReadSpec == Init /\ [][ReadNext]_vars

(***************************************************************************)
(* The lookups alone: GET and list, over a store that cancels fill.        *)
(***************************************************************************)
LookupNext ==
    \/ \E orderId \in PathIds, body \in FewCancelBodies : CancelOrder(orderId, body)
    \/ \E orderId \in PathIds : GetOrder(orderId)
    \/ \E query \in FewQueries : ListOrders(query)
    \/ \E p \in PubIds : Deadline(p)
    \/ \E p \in PubIds : Ended(p)

LookupSpec == Init /\ [][LookupNext]_vars

(***************************************************************************)
(* The service with the broker watched: creates, one at a time, cancels,   *)
(* and every event of the publisher runs they start.                       *)
(***************************************************************************)
BrokerNext ==
    \/ \E body \in FewBodies : CreateOrder(1, body)
    \/ \E outcome \in FetchOutcomes : PaymentSettled(1, outcome)
    \/ \E outcome \in FetchOutcomes : ShippingSettled(1, outcome)
    \/ \E orderId \in PathIds, body \in FewCancelBodies : CancelOrder(orderId, body)
    \/ \E p \in PubIds : Connected(p)
    \/ \E p \in PubIds : Published(p)
    \/ \E p \in PubIds : ConnectError(p)
    \/ \E p \in PubIds : Deadline(p)
    \/ \E p \in PubIds : Ended(p)

BrokerSpec == Init /\ [][BrokerNext]_vars

(***************************************************************************)
(* Cancels of a client's own id over time, and every event of the         *)
(* publisher runs they start.                                              *)
(***************************************************************************)
PublisherNext ==
    \/ Tick
    \/ \E orderId \in PathIds, body \in FewCancelBodies : CancelOrder(orderId, body)
    \/ \E p \in PubIds : Connected(p)
    \/ \E p \in PubIds : Published(p)
    \/ \E p \in PubIds : ConnectError(p)
    \/ \E p \in PubIds : Deadline(p)
    \/ \E p \in PubIds : Ended(p)

PublisherSpec == Init /\ [][PublisherNext]_vars

\* setTimeout: a timer that stays armed fires
FairPublisherSpec == PublisherSpec /\ \A p \in PubIds : WF_vars(Deadline(p))

(***************************************************************************)
(* Claims about POST /orders.                                              *)
(***************************************************************************)
\* the payloads C1 speaks of: a field is missing, or some item has a quantity
\* that is no integer of at least 1, a price that is no finite number, or a
\* sku that is blank once trimmed
PayloadIsBad(body) ==
    LET payload == BodyOrEmpty(body) IN
    \/ payload.customerId.t = "undefined"
    \/ payload.paymentMethodId.t = "undefined"
    \/ payload.items.t = "undefined"
    \/ /\ payload.items.t = "array"
       /\ \E i \in 1..Len(payload.items.a) :
             LET item == payload.items.a[i] IN
             /\ item.t = "object"
             /\ \/ ~(IsInteger(item.quantity) /\ item.quantity.n >= 100)
                \/ ~IsFinite(item.unitPrice)
                \/ item.sku.t = "string" /\ Trim(item.sku.s) = <<>>

BadBodies == {body \in CreateBodies : PayloadIsBad(body)}

\* C1: a create with a bad payload answers 400 "Invalid order payload", leaves
\* the store as it was, sends no payment and no shipping request and starts
\* no publisher.
C1_BadPayloadRejected ==
    [][\A s \in Slots :
          (\E body \in BadBodies : CreateOrder(s, body)) =>
              /\ resp'.res = ErrorResponse("Invalid order payload")
              /\ orders' = orders
              /\ creates' = creates
              /\ pubs' = pubs
              /\ uuids' = uuids]_vars

\* a create was rejected while the store held an order and no request was
\* waiting for a payment or a shipping call
C1_Witness ==
    /\ resp.op = "create"
    /\ resp.res.status = 400
    /\ resp.res.error = "Invalid order payload"
    /\ \A s \in Slots : creates[s].pc = "idle"
    /\ Len(orders) > 0

\* the sum of unitPrice x quantity, taken from the last item backwards
RECURSIVE SumOfProducts(_)
SumOfProducts(items) ==
    IF items = <<>> THEN 0
    ELSE LET last == items[Len(items)] IN
         SumOfProducts(SubSeq(items, 1, Len(items) - 1))
             + (last.unitPrice.n * (last.quantity.n \div 100))

\* C2: the order a create builds, stores and returns has the sum of
\* unitPrice x quantity as its totalAmount and the status PENDING_PAYMENT, and
\* right after the insert the store holds it under its id with that status.
C2_TotalAndStatus ==
    [][\A s \in Slots :
          /\ creates'[s].order # <<>> =>
                LET order == creates'[s].order[1] IN
                /\ order.totalAmount = Num(SumOfProducts(order.items))
                /\ order.status = "PENDING_PAYMENT"
          /\ (creates[s].pc = "shipping" /\ creates'[s].pc = "idle") =>
                LET order == creates[s].order[1] IN
                /\ resp'.res = OrderResponse(201, order)
                /\ MapHas(orders', order.id)
                /\ MapGet(orders', order.id) = order
                /\ MapGet(orders', order.id).status = "PENDING_PAYMENT"]_vars

\* a create of two items has answered, and the store holds its order
C2_Witness ==
    /\ resp.op = "create"
    /\ resp.res.status = 201
    /\ Len(resp.res.body[1].items) = 2
    /\ resp.res.body[1].totalAmount = Num(1748)
    /\ MapHas(orders, resp.id)
    /\ MapGet(orders, resp.id).status = "PENDING_PAYMENT"

\* C3: however the payment call and the shipping call end, the create goes
\* on, stores the order it built and answers 201 with it.
C3_DownstreamFailuresTolerated ==
    [][\A s \in Slots, outcome \in FetchOutcomes :
          /\ PaymentSettled(s, outcome) =>
                /\ creates'[s].pc = "shipping"
                /\ creates'[s].order = creates[s].order
          /\ ShippingSettled(s, outcome) =>
                /\ resp'.op = "create"
                /\ resp'.res = OrderResponse(201, creates[s].order[1])
                /\ MapHas(orders', creates[s].order[1].id)
                /\ MapGet(orders', creates[s].order[1].id) = creates[s].order[1]]_vars

\* a create has answered 201 although both calls gave nothing
C3_Witness ==
    /\ resp.op = "create"
    /\ resp.awaited = <<"null", "null">>
    /\ resp.res.status = 201
    /\ MapHas(orders, resp.id)

(***************************************************************************)
(* Claims about publishAnalyticsNotification.                              *)
(***************************************************************************)
\* C4: in a publisher run client.end is called exactly once: never twice,
\* whatever triggers fire and in whatever order, and once as soon as one
\* trigger has fired.
C4_EndExactlyOnce ==
    \A p \in PubIds :
        /\ pubs[p].ends <= 1
        /\ pubs[p].fired >= 1 => pubs[p].ends = 1
        /\ pubs[p].completed <=> pubs[p].ends = 1

\* the deadline, the publish callback and the error listener have all run in
\* one run, and the client was ended once
C4_Witness ==
    \E p \in PubIds :
        /\ pubs[p].fired = 3
        /\ pubs[p].timeout = "fired"
        /\ pubs[p].ends = 1

\* C5: a publisher run that has started completes and ends its client, also
\* when the broker neither connects, nor fails, nor acknowledges.
C5_PublisherCompletes ==
    \A p \in PubIds :
        (pubs[p].started /\ ~pubs[p].completed)
            ~> (pubs[p].completed /\ pubs[p].ends = 1)

\* a run completed by its deadline alone: no connect, no error, no publish
C5_Witness ==
    \E p \in PubIds :
        /\ pubs[p].completed
        /\ pubs[p].ends = 1
        /\ pubs[p].timeout = "fired"
        /\ pubs[p].onConnect = "armed"
        /\ pubs[p].onError = "armed"
        /\ pubs[p].publish = "none"

\* C6: the step that starts a publisher run has already sent the response of
\* its request, 201 with the built order for a create and 200 for a cancel,
\* while the run is still connecting; and no later step of a run changes the
\* store or a response.
C6_ResponseIgnoresPublisher ==
    [][\A p \in PubIds :
          /\ (~pubs[p].started /\ pubs'[p].started) =>
                /\ ~pubs'[p].completed
                /\ \/ /\ pubs'[p].title = "OrderCreated"
                      /\ resp'.op = "create"
                      /\ resp'.res.status = 201
                      /\ MapGet(orders', resp'.id) = resp'.res.body[1]
                   \/ /\ pubs'[p].title = "OrderCancelled"
                      /\ resp'.op = "cancel"
                      /\ resp'.res.status = 200
                      /\ MapGet(orders', resp'.id) = resp'.res.body[1]
          /\ (pubs[p].started /\ pubs'[p] # pubs[p]) =>
                /\ orders' = orders
                /\ creates' = creates
                /\ resp' = Silent]_vars

\* a create has just answered 201 and its publisher run has only started
C6_Witness ==
    \E p \in PubIds :
        /\ resp.op = "create"
        /\ resp.res.status = 201
        /\ pubs[p].title = "OrderCreated"
        /\ pubs[p].onConnect = "armed"
        /\ pubs[p].timeout = "armed"
        /\ ~pubs[p].completed

(***************************************************************************)
(* Claims about cancel, get and list.                                      *)
(***************************************************************************)
\* a cancellation body the interface accepts: no body, or an object whose
\* reason is absent or a string of at most 256 characters
CancelBodyIsValid(body) ==
    \/ body.t = "undefined"
    \/ /\ body.t = "object"
       /\ \/ body.reason = Undefined
          \/ body.reason.t = "string" /\ Len(body.reason.s) <= 256

ValidCancelBodies == {body \in CancelBodies : CancelBodyIsValid(body)}

\* the step answers a cancel of the id
AnswersCancel(orderId) == resp'.op = "cancel" /\ resp'.id = orderId

\* the store holds the id as CANCELLED and no create that would insert the
\* id is under way: the last operation on the id was a cancel
LastCancelled(orderId) ==
    /\ MapHas(orders, orderId)
    /\ MapGet(orders, orderId).status = "CANCELLED"
    /\ \A s \in Slots :
          creates[s].pc \in {"payment", "shipping"} => creates[s].order[1].id # orderId

\* C7 as stated: a second cancel right after a first answers 200 and leaves
\* the store entry equal to the entry after the first cancel.
C7_SecondCancelSameEntry ==
    [][\A orderId \in PathIds :
          (/\ LastCancelled(orderId)
           /\ AnswersCancel(orderId)
           /\ \E body \in ValidCancelBodies : CancelOrder(orderId, body)) =>
              /\ resp'.res.status = 200
              /\ MapGet(orders', orderId) = MapGet(orders, orderId)]_vars

\* C7, amended: a second cancel right after a first answers 200 with the
\* store entry, which is CANCELLED with cancelledAt set and equals the entry
\* after the first cancel in every field but cancelledAt, the time of the
\* second cancel.
C7_SecondCancelRestamps ==
    [][\A orderId \in PathIds :
          (/\ LastCancelled(orderId)
           /\ AnswersCancel(orderId)
           /\ \E body \in ValidCancelBodies : CancelOrder(orderId, body)) =>
              /\ resp'.res.status = 200
              /\ resp'.res.body = <<MapGet(orders', orderId)>>
              /\ MapGet(orders', orderId).status = "CANCELLED"
              /\ MapGet(orders, orderId).cancelledAt.t = "string"
              /\ MapGet(orders', orderId) =
                     [MapGet(orders, orderId) EXCEPT !.cancelledAt = Str(ToISOString(clock))]]_vars

\* an id the store did not hold was cancelled at one time, which made its
\* order, and again at a later time
C7_Witness ==
    /\ resp.op = "cancel"
    /\ resp.res.status = 200
    /\ resp.id \in ExternalIds
    /\ MapGet(orders, resp.id).customerId = CustomerPrefix \o resp.id
    /\ MapGet(orders, resp.id).createdAt = ToISOString(0)
    /\ MapGet(orders, resp.id).cancelledAt = Str(ToISOString(1))

\* C8: cancel with a valid body answers 200 with the order the store then
\* holds for the id, which is CANCELLED with cancelledAt set; for an id the
\* store did not hold that order is the placeholder (customer-<id>, one
\* default item, total 100) turned CANCELLED.
C8_CancelAlwaysSucceeds ==
    [][\A orderId \in PathIds :
          (/\ AnswersCancel(orderId)
           /\ \E body \in ValidCancelBodies : CancelOrder(orderId, body)) =>
              LET after == MapGet(orders', orderId) IN
              /\ resp'.res.status = 200
              /\ MapHas(orders', orderId)
              /\ resp'.res.body = <<after>>
              /\ after.id = orderId
              /\ after.status = "CANCELLED"
              /\ after.cancelledAt.t = "string"
              /\ ~MapHas(orders, orderId) =>
                    /\ after.customerId = CustomerPrefix \o orderId
                    /\ after.items = <<Item(Str(SkuDefault), Whole(1), Whole(100))>>
                    /\ after.totalAmount = Whole(100)
              /\ \A other \in MapKeys(orders) \ {orderId} :
                    MapGet(orders', other) = MapGet(orders, other)]_vars

\* an id the store did not hold was cancelled while the store held a created
\* order
C8_Witness ==
    /\ resp.op = "cancel"
    /\ resp.res.status = 200
    /\ resp.id \in ExternalIds
    /\ resp.res.body[1].customerId = CustomerPrefix \o resp.id
    /\ resp.res.body[1].status = "CANCELLED"
    /\ Len(orders) = 2

\* C9: get answers 200 with the stored order for an id the store holds, and
\* 200 with a CONFIRMED order carrying the requested id for any other id.
C9_GetNeverFails ==
    resp.op = "get" =>
        /\ resp.res.status = 200
        /\ resp.res.json = "object"
        /\ Len(resp.res.body) = 1
        /\ IF MapHas(orders, resp.id)
           THEN resp.res.body[1] = MapGet(orders, resp.id)
           ELSE /\ resp.res.body[1].id = resp.id
                /\ resp.res.body[1].status = "CONFIRMED"

\* get of an id the store does not hold, while it holds another order
C9_Witness ==
    /\ resp.op = "get"
    /\ ~MapHas(orders, resp.id)
    /\ Len(orders) > 0
    /\ resp.res.status = 200
    /\ resp.res.body[1].status = "CONFIRMED"

\* a query parameter is given when the request carries it as one string
FilterGiven(v) == v.t = "string"

\* the order satisfies every filter the query gives
MatchesFilters(order, query) ==
    /\ FilterGiven(query.customerId) => order.customerId = query.customerId.s
    /\ FilterGiven(query.status) => StatusText(order.status) = query.status.s
    /\ FilterGiven(query.from) => ~StrLess(order.createdAt, query.from.s)
    /\ FilterGiven(query.to) => ~StrLess(query.to.s, order.createdAt)

\* C10: on a non-empty store a status outside the four known values gets the
\* invalid-query error, and a query with valid filters gets exactly the
\* stored orders that satisfy every given filter.
C10_ListExactlyMatching ==
    (resp.op = "list" /\ Len(orders) > 0) =>
        IF FilterGiven(resp.query.status) /\ ~IsOrderStatus(resp.query.status.s)
        THEN resp.res = ErrorResponse("Invalid query parameters")
        ELSE (/\ FilterGiven(resp.query.from) => IsValidDateTime(resp.query.from.s)
              /\ FilterGiven(resp.query.to) => IsValidDateTime(resp.query.to.s)) =>
                 /\ resp.res.status = 200
                 /\ resp.res.json = "array"
                 /\ \A i, j \in 1..Len(resp.res.body) :
                       resp.res.body[i] = resp.res.body[j] => i = j
                 /\ {resp.res.body[i] : i \in 1..Len(resp.res.body)} =
                       {MapGet(orders, id) : id \in
                           {k \in MapKeys(orders) : MatchesFilters(MapGet(orders, k), resp.query)}}

(***************************************************************************)
(* Claims about the orders the service holds and hands out.                *)
(***************************************************************************)
\* cancelledAt is set exactly when the status is CANCELLED
StampedIffCancelled(order) ==
    (order.cancelledAt # Undefined) <=> (order.status = "CANCELLED")

\* C11: every order in the store, and every order a create, get, list or
\* cancel returns, has cancelledAt set if and only if its status is CANCELLED.
C11_CancelledAtIffCancelled ==
    /\ \A i \in 1..Len(orders) : StampedIffCancelled(orders[i])
    /\ resp.res.json \in {"object", "array"} =>
          \A i \in 1..Len(resp.res.body) : StampedIffCancelled(resp.res.body[i])

\* the payloads C12 speaks of: customerId or paymentMethodId is absent, is
\* not a string, or is the empty string
NoIdBodies ==
    {body \in CreateBodies :
        LET payload == BodyOrEmpty(body) IN
        \/ payload.customerId.t # "string"
        \/ payload.customerId.s = <<>>
        \/ payload.paymentMethodId.t # "string"
        \/ payload.paymentMethodId.s = <<>>}

\* C12: a create whose customerId or paymentMethodId is absent, not a string
\* or empty answers 400 "Invalid order payload", takes no id, waits for no
\* call and stores nothing.
C12_EmptyIdsRejected ==
    [][\A s \in Slots :
          (\E body \in NoIdBodies : CreateOrder(s, body)) =>
              /\ resp'.res = ErrorResponse("Invalid order payload")
              /\ orders' = orders
              /\ creates' = creates
              /\ uuids' = uuids]_vars

(***************************************************************************)
(* Claims about the steps of POST /orders.                                 *)
(***************************************************************************)
\* C13: a create waits for its shipping call only after its payment call has
\* resolved, its order enters the store only in the step in which its
\* shipping call resolves, and it answers 201 only in that step, with the
\* order then in the store.
C13_CreateStepsOrdered ==
    [][/\ \A s \in Slots :
             /\ (creates[s].pc # "payment" /\ creates'[s].pc = "payment") =>
                   creates[s].pc = "idle"
             /\ (creates[s].pc # "shipping" /\ creates'[s].pc = "shipping") =>
                   /\ creates[s].pc = "payment"
                   /\ creates'[s].payment \in {"json", "null"}
             /\ creates[s].pc \in {"payment", "shipping"} =>
                   LET id == creates[s].order[1].id IN
                   /\ ~MapHas(orders, id)
                   /\ MapHas(orders', id) =>
                         /\ creates[s].pc = "shipping"
                         /\ creates'[s].pc = "idle"
       /\ (resp'.op = "create" /\ resp'.res.status = 201) =>
             /\ \E s \in Slots :
                   /\ creates[s].pc = "shipping"
                   /\ creates[s].order[1].id = resp'.id
                   /\ creates'[s].pc = "idle"
             /\ MapHas(orders', resp'.id)
             /\ resp'.res.body = <<MapGet(orders', resp'.id)>>]_vars

\* a create whose payment call failed and whose shipping call succeeded has
\* answered, and its order is in the store
C13_Witness ==
    /\ resp.op = "create"
    /\ resp.res.status = 201
    /\ resp.awaited = <<"null", "json">>
    /\ MapHas(orders, resp.id)

\* C14: an id the store maps to a CANCELLED order is mapped to a CANCELLED
\* order after every step, whatever the requests under way.
C14_CancelledAbsorbing ==
    [][\A id \in MapKeys(orders) :
          MapGet(orders, id).status = "CANCELLED" =>
              /\ MapHas(orders', id)
              /\ MapGet(orders', id).status = "CANCELLED"]_vars

(***************************************************************************)
(* Claims about GET /orders on an empty store.                             *)
(***************************************************************************)
\* every filter the query gives is valid: a known status, date-times
FiltersValid(query) ==
    /\ FilterGiven(query.status) => IsOrderStatus(query.status.s)
    /\ FilterGiven(query.from) => IsValidDateTime(query.from.s)
    /\ FilterGiven(query.to) => IsValidDateTime(query.to.s)

\* C15: on an empty store a list with valid filters answers 200 with exactly
\* one order, the made-up one (one default item, total 100).
C15_EmptyStoreListsPlaceholder ==
    (resp.op = "list" /\ Len(orders) = 0 /\ FiltersValid(resp.query)) =>
        /\ resp.res.status = 200
        /\ resp.res.json = "array"
        /\ Len(resp.res.body) = 1
        /\ resp.res.body[1].items = <<Item(Str(SkuDefault), Whole(1), Whole(100))>>
        /\ resp.res.body[1].totalAmount = Whole(100)

\* C16: within one publisher run client.publish is called at most once, only
\* by the connect listener, and never on a client that client.end(true) has
\* closed: once the deadline or the error listener has completed the run, a
\* connect event causes no publish.
C16_PublishOnlyWhileOpen ==
    [][\A p \in PubIds :
          (pubs'[p].publish = "pending" /\ pubs[p].publish # "pending") =>
              /\ pubs[p].publish = "none"
              /\ pubs[p].onConnect = "armed"
              /\ pubs'[p].onConnect = "fired"
              /\ ~pubs[p].completed
              /\ pubs[p].ends = 0]_vars

\* C17: a create that passes validation sends one payment request and then
\* one shipping request and never sends either again: however the payment
\* request ends, the next step of the handler is the shipping request for the
\* same order, with no answer sent yet, and however the shipping request ends,
\* the next step answers 201 having awaited exactly these two calls.
C17_OneCallEachNoRetry ==
    [][\A s \in Slots :
          /\ creates[s].pc = "payment" =>
                /\ \A outcome \in FetchOutcomes : ENABLED PaymentSettled(s, outcome)
                /\ creates'[s] # creates[s] =>
                      /\ creates'[s].pc = "shipping"
                      /\ creates'[s].order = creates[s].order
                      /\ creates'[s].payment \in {"json", "null"}
                      /\ resp' = Silent
          /\ (creates[s].pc = "shipping" /\ creates'[s] # creates[s]) =>
                /\ creates'[s] = IdleCreate
                /\ resp'.op = "create"
                /\ resp'.id = creates[s].order[1].id
                /\ resp'.res.status = 201
                /\ Len(resp'.awaited) = 2
                /\ resp'.awaited[1] = creates[s].payment
                /\ resp'.awaited[2] \in {"json", "null"}]_vars

\* the shipping request is in flight although the payment request has failed
C17_Witness ==
    \E s \in Slots :
        /\ creates[s].pc = "shipping"
        /\ creates[s].payment = "null"

\* the bodies whose reason is given and is not a string of at most 256
\* characters
InvalidReasonBodies ==
    {body \in CancelBodies :
        /\ body.t = "object"
        /\ body.reason # Undefined
        /\ \/ body.reason.t # "string"
           \/ Len(body.reason.s) > 256}

\* C18: a cancel of an id the store holds answers 200 and changes only status
\* and cancelledAt of that entry: its id, customerId, items, totalAmount and
\* createdAt stay, the store keeps the same ids and every other entry is as
\* it was; a cancel whose reason is not a string of at most 256 characters
\* answers 400, leaves the store as it was and starts no publisher run.
C18_CancelChangesStatusOnly ==
    [][\A orderId \in PathIds :
          AnswersCancel(orderId) =>
              /\ (resp'.res.status = 200 /\ MapHas(orders, orderId)) =>
                    LET before == MapGet(orders, orderId)
                        after == MapGet(orders', orderId)
                    IN  /\ MapKeys(orders') = MapKeys(orders)
                        /\ Len(orders') = Len(orders)
                        /\ after.id = before.id
                        /\ after.customerId = before.customerId
                        /\ after.items = before.items
                        /\ after.totalAmount = before.totalAmount
                        /\ after.createdAt = before.createdAt
                        /\ after.status = "CANCELLED"
                        /\ \A other \in MapKeys(orders) \ {orderId} :
                              MapGet(orders', other) = MapGet(orders, other)
              /\ (\E body \in InvalidReasonBodies : CancelOrder(orderId, body)) =>
                    /\ resp'.res = ErrorResponse("Invalid cancellation request")
                    /\ orders' = orders
                    /\ pubs' = pubs]_vars

\* a created order was cancelled while the store held a second order: the
\* entry still has the customer and the items of its create
C18_Witness ==
    /\ resp.op = "cancel"
    /\ resp.res.status = 200
    /\ resp.id = Uuid(1)
    /\ Len(orders) = 2
    /\ MapHas(orders, Uuid(1))
    /\ MapGet(orders, Uuid(1)).customerId = CustomerOne
    /\ MapGet(orders, Uuid(1)).status = "CANCELLED"

\* C19: every order in the store has at least one item and a totalAmount
\* equal to the sum of unitPrice x quantity over its items, whether a create
\* inserted it, a cancel of an unknown id inserted it from the made-up order,
\* or later cancels have overwritten it.
C19_StoredTotalsExact ==
    \A i \in 1..Len(orders) :
        /\ Len(orders[i].items) >= 1
        /\ orders[i].totalAmount = Num(SumOfProducts(orders[i].items))

\* the store holds a cancelled order that a create built from two units at
\* 9.99 and a cancelled order made up for an unknown id
C19_Witness ==
    /\ Len(orders) = 2
    /\ \A i \in 1..2 : orders[i].status = "CANCELLED"
    /\ \E i \in 1..2 : /\ orders[i].customerId = CustomerOne
                       /\ orders[i].items = <<GoodItem>>
                       /\ orders[i].totalAmount = Num(1998)
    /\ \E i \in 1..2 : orders[i].customerId = CustomerPrefix \o orders[i].id

\* C20: GET of an id and list leave the store as it was, also when they
\* answer with a made-up order (an unknown id, an empty store) and when list
\* rejects its query; so the store is still empty after a GET of an unknown
\* id on the empty store.
C20_LookupsLeaveStore ==
    [][resp'.op \in {"get", "list"} =>
          /\ orders' = orders
          /\ creates' = creates
          /\ pubs' = pubs]_vars

\* list has answered with one made-up order and the store is empty
C20_Witness ==
    /\ resp.op = "list"
    /\ resp.res.status = 200
    /\ resp.res.json = "array"
    /\ Len(resp.res.body) = 1
    /\ Len(orders) = 0
====
